---- MODULE Spec2Model ----
(***************************************************************************)
(* LazyLoad 2.0.0 (src/lazyload.js, lines 264-465): the request queue, the *)
(* pending request, the injected nodes and their completion signals, and   *)
(* the callback dispatch of finish().                                      *)
(*                                                                         *)
(* URLs are numbered 1, 2, ...; a request is numbered by its position in   *)
(* the order of the js()/css() calls and its callback function is          *)
(* identified by that number (0 is "no callback").                         *)
(***************************************************************************)
EXTENDS Integers, Sequences, FiniteSets, TLC

\* Bounds of the model.
MaxReqs == 2
MaxUrls == 2
MaxSpurious == 1

\* ------------------------------------------------------------------------
\* JavaScript values that occur as the obj and scope parameters.
ObjValues == {"undefined", "null", "zero", "A"}
ScopeValues == {"undefined", "S"}

\* JavaScript truthiness, as tested by if (obj) and if (pending.scope).
Truthy(v) == v \notin {"undefined", "null", "zero"}

\* A value the caller actually passed (neither undefined nor null).
Present(v) == v \notin {"undefined", "null"}

Types == {"css", "js"}

\* The urls parameter: a single URL string, or an array of URLs.
UrlArray(n) == [i \in 1..n |-> i]
UrlInputs == {[str |-> 1]} \cup {[arr |-> UrlArray(n)] : n \in 0..MaxUrls}

\* urls.constructor === Array ? urls : [urls]
CastToArray(u) == IF "arr" \in DOMAIN u THEN u.arr ELSE <<u.str>>

\* navigator.userAgent, as the set of the tokens that the patterns of
\* getUserAgent() look for: a marker ("AppleWebKit/", "MSIE ", "Gecko/",
\* "rv:", "Opera/") and the text the pattern captures after it.  A text holds
\* at most one token per marker (match() reports the first occurrence).
\*   ""  nothing follows the marker      "x"  no leading number
\*   "0" the number zero                 "7"  a positive number
Markers == {"AppleWebKit", "MSIE", "Gecko", "rv", "Opera"}
Versions == {"", "x", "0", "7"}

Token(marker, version) == [marker |-> marker, version |-> version]

\* The texts of the five browser families, each with a positive version.
UserAgents ==
  { {Token("AppleWebKit", "7")}, {Token("MSIE", "7")},
    {Token("Gecko", "7"), Token("rv", "7")}, {Token("Opera", "7")}, {} }

\* Every text over the markers: each marker absent, or followed by one of the
\* version texts (the text after "Gecko/" is never read: test() only).
AllUserAgents ==
  { n \in SUBSET [marker : Markers, version : Versions] :
      /\ \A s, t \in n : s.marker = t.marker => s = t
      /\ \A t \in n : t.marker = "Gecko" => t.version = "7" }

\* nua.match(/<marker>(...)/): the captured text m[1], or NoMatch for null.
NoMatch == "null"
Match(n, marker) ==
  IF \E t \in n : t.marker = marker
  THEN (CHOOSE t \in n : t.marker = marker).version
  ELSE NoMatch

\* if (m && m[1]): the pattern matched and captured a non-empty text.
MatchedVersion(m) == m # NoMatch /\ m # ""

\* parseFloat: the leading number of the text, NaN when there is none.
NaN == -1
parseFloat(v) == IF v = "7" THEN 7 ELSE IF v = "0" THEN 0 ELSE NaN

\* Truthiness of a number, as tested by if (ua.ie) and ua.gecko || ua.opera:
\* 0 and NaN are falsy.
Flagged(x) == x # 0 /\ x # NaN

UaUnset == [populated |-> FALSE, gecko |-> 0, ie |-> 0, opera |-> 0, webkit |-> 0]

\* ua = {gecko: 0, ie: 0, opera: 0, webkit: 0}, lines 341-346.
UaZero == [populated |-> TRUE, gecko |-> 0, ie |-> 0, opera |-> 0, webkit |-> 0]

\* Variant of getUserAgent: a marker is taken whatever follows it.
getUserAgentAnyVersion(cur, n) ==
  IF cur.populated THEN cur
  ELSE IF Match(n, "AppleWebKit") # NoMatch
       THEN [UaZero EXCEPT !.webkit = parseFloat(Match(n, "AppleWebKit"))]
  ELSE IF Match(n, "MSIE") # NoMatch
       THEN [UaZero EXCEPT !.ie = parseFloat(Match(n, "MSIE"))]
  ELSE IF Match(n, "Gecko") # NoMatch
       THEN [UaZero EXCEPT !.gecko =
               IF MatchedVersion(Match(n, "rv"))
               THEN parseFloat(Match(n, "rv")) ELSE 1]
  ELSE IF Match(n, "Opera") # NoMatch
       THEN [UaZero EXCEPT !.opera = parseFloat(Match(n, "Opera"))]
  ELSE UaZero

\* getUserAgent(), lines 333-369: memoized; the webkit and MSIE markers are
\* taken only with a non-empty version after them, the Gecko marker is taken
\* as it is (version 1 unless an "rv:" token gives one), the Opera marker is
\* taken whatever follows it.
getUserAgent(cur, n) ==
  IF cur.populated THEN cur
  ELSE IF MatchedVersion(Match(n, "AppleWebKit"))
       THEN [UaZero EXCEPT !.webkit = parseFloat(Match(n, "AppleWebKit"))]
  ELSE IF MatchedVersion(Match(n, "MSIE"))
       THEN [UaZero EXCEPT !.ie = parseFloat(Match(n, "MSIE"))]
  ELSE IF Match(n, "Gecko") # NoMatch
       THEN [UaZero EXCEPT !.gecko =
               IF MatchedVersion(Match(n, "rv"))
               THEN parseFloat(Match(n, "rv")) ELSE 1]
  ELSE IF Match(n, "Opera") # NoMatch
       THEN [UaZero EXCEPT !.opera = parseFloat(Match(n, "Opera"))]
  ELSE UaZero

VARIABLES
  nua,        \* navigator.userAgent
  ua,         \* user agent information (memoized)
  pending,    \* request in progress: <<>> or <<request>>
  queue,      \* queued requests
  nodes,      \* injected nodes whose completion handler is still subscribed
  submitted,  \* history: the js()/css() calls, in order
  created,    \* history: the request objects pushed on the queue, in order
  started,    \* history: request objects whose nodes were injected
  finalized,  \* history: request objects whose last URL finished
  signals,    \* history: per request object, the finish() calls of its nodes
  calls,      \* history: the callback invocations, in order
  fired,      \* nodes whose completion handler has run (timers excluded)
  spurious    \* history: number of repeated events delivered to fired nodes

vars == <<nua, ua, pending, queue, nodes, submitted, created, started,
          finalized, signals, calls, fired, spurious>>

\* ------------------------------------------------------------------------
\* Variant of NewRequests: every single-URL request object carries the callback.
NewRequestsCallbackOnAll(type, urls, callback, obj, scope, u, base) ==
  IF type = "css" \/ Flagged(u.gecko) \/ Flagged(u.opera)
  THEN << [urls |-> urls, callback |-> callback, obj |-> obj,
           scope |-> scope, type |-> type, bid |-> base + 1] >>
  ELSE [i \in 1..Len(urls) |->
          [urls |-> <<urls[i]>>, callback |-> callback,
           obj |-> obj, scope |-> scope, type |-> type, bid |-> base + i]]

\* Variant of ParallelEligible: only stylesheets are loaded in parallel.
ParallelEligibleCssOnly(type, u) == type = "css"

\* load(), lines 391-409: one request object for the whole list (css, or js
\* under gecko/opera), else one request object per URL with the callback on
\* the last one only.  base is the number of request objects made so far.
ParallelEligible(type, u) == type = "css" \/ Flagged(u.gecko) \/ Flagged(u.opera)

\* Variant of NewRequests: the first single-URL request object carries the
\* callback.
NewRequestsCallbackOnFirst(type, urls, callback, obj, scope, u, base) ==
  IF type = "css" \/ Flagged(u.gecko) \/ Flagged(u.opera)
  THEN << [urls |-> urls, callback |-> callback, obj |-> obj,
           scope |-> scope, type |-> type, bid |-> base + 1] >>
  ELSE [i \in 1..Len(urls) |->
          [urls |-> <<urls[i]>>,
           callback |-> IF i = 1 THEN callback ELSE 0,
           obj |-> obj, scope |-> scope, type |-> type, bid |-> base + i]]

NewRequests(type, urls, callback, obj, scope, u, base) ==
  IF ParallelEligible(type, u)
  THEN << [urls |-> urls, callback |-> callback, obj |-> obj,
           scope |-> scope, type |-> type, bid |-> base + 1] >>
  ELSE [i \in 1..Len(urls) |->
          [urls |-> <<urls[i]>>,
           callback |-> IF i = Len(urls) THEN callback ELSE 0,
           obj |-> obj, scope |-> scope, type |-> type, bid |-> base + i]]

\* Variant of Enqueue: new request objects go to the front of the queue.
EnqueueFront(q, new) == new \o q

\* queue.push(...), lines 392 and 401: new request objects go to the tail.
Enqueue(q, new) == q \o new

\* Variant of Strategy: the timer is used for stylesheets under gecko only.
StrategyGeckoOnly(type, u) ==
  IF Flagged(u.ie) THEN "readystate"
  ELSE IF type = "css" /\ Flagged(u.gecko) THEN "timer"
  ELSE "event"

\* load(), lines 435-450: how the injected node reports completion.
Strategy(type, u) ==
  IF Flagged(u.ie) THEN "readystate"
  ELSE IF type = "css" /\ (Flagged(u.gecko) \/ Flagged(u.webkit)) THEN "timer"
  ELSE "event"

\* load(), lines 422-453: the nodes injected for a request object.
NodesFor(b, u) ==
  {[bid |-> b.bid, url |-> b.urls[i], handler |-> Strategy(b.type, u),
    delay |-> IF Strategy(b.type, u) = "timer" THEN 100 * Len(b.urls) ELSE 0]
     : i \in 1..Len(b.urls)}

\* Variant of Drain: does not wait for the pending request.
DrainNoGuard(p, q, u) ==
  IF q = <<>>
  THEN [pending |-> p, queue |-> q, injected |-> {}, started |-> {}]
  ELSE [pending |-> <<Head(q)>>, queue |-> Tail(q),
        injected |-> NodesFor(Head(q), u), started |-> {Head(q).bid}]

\* Variant of Drain: waits only for a pending request of the same kind.
DrainPerKind(p, q, u) ==
  IF q = <<>> \/ (p # <<>> /\ p[1].type = Head(q).type)
  THEN [pending |-> p, queue |-> q, injected |-> {}, started |-> {}]
  ELSE [pending |-> <<Head(q)>>, queue |-> Tail(q),
        injected |-> NodesFor(Head(q), u), started |-> {Head(q).bid}]

\* load(), lines 412-453: take the head of the queue unless a request is
\* pending or the queue is empty, and inject its nodes.
Drain(p, q, u) ==
  IF p # <<>> \/ q = <<>>
  THEN [pending |-> p, queue |-> q, injected |-> {}, started |-> {}]
  ELSE [pending |-> <<Head(q)>>, queue |-> Tail(q),
        injected |-> NodesFor(Head(q), u), started |-> {Head(q).bid}]

\* finish(), lines 306-316: the callback invocation of a finished request.
Dispatch(b) ==
  IF b.callback = 0 THEN <<>>
  ELSE IF Truthy(b.obj)
       THEN IF Truthy(b.scope)
            THEN <<[req |-> b.callback, recv |-> b.obj, args |-> <<>>]>>
            ELSE <<[req |-> b.callback, recv |-> "window", args |-> <<b.obj>>]>>
       ELSE <<[req |-> b.callback, recv |-> "undefined", args |-> <<>>]>>

\* Variant of Shift: removes two URLs per finish().
ShiftTwo(s) == IF Len(s) <= 2 THEN <<>> ELSE Tail(Tail(s))

\* urls.shift(), line 301, on the remaining URLs.
Shift(s) == IF s = <<>> THEN <<>> ELSE Tail(s)

\* Variant of Finish: the next queued request is not started.
FinishNoDrain(p, q, u) ==
  IF p = <<>>
  THEN [pending |-> p, queue |-> q, injected |-> {}, started |-> {},
        finalized |-> {}, calls |-> <<>>]
  ELSE LET urls == Shift(p[1].urls) IN
       IF urls # <<>>
       THEN [pending |-> <<[p[1] EXCEPT !.urls = urls]>>, queue |-> q,
             injected |-> {}, started |-> {}, finalized |-> {},
             calls |-> <<>>]
       ELSE [pending |-> <<>>, queue |-> q, injected |-> {},
             started |-> {}, finalized |-> {p[1].bid},
             calls |-> Dispatch(p[1])]

\* finish(), lines 294-324.
Finish(p, q, u) ==
  IF p = <<>>
  THEN [pending |-> p, queue |-> q, injected |-> {}, started |-> {},
        finalized |-> {}, calls |-> <<>>]
  ELSE LET urls == Shift(p[1].urls) IN
       IF urls # <<>>
       THEN [pending |-> <<[p[1] EXCEPT !.urls = urls]>>, queue |-> q,
             injected |-> {}, started |-> {}, finalized |-> {},
             calls |-> <<>>]
       ELSE LET d == Drain(<<>>, q, u) IN
            [pending |-> d.pending, queue |-> d.queue,
             injected |-> d.injected, started |-> d.started,
             finalized |-> {p[1].bid}, calls |-> Dispatch(p[1])]

\* Variant of HandledEvents: only the load event is subscribed.
HandledEventsLoadOnly == {"load"}

\* node.onload = node.onerror = finish, line 449: the events that run finish().
HandledEvents == {"load", "error"}

\* Variant of ReadyStateHandler: the handler stays subscribed.
ReadyStateHandlerKeeps(handler, readyState) ==
  IF handler = "readystate" /\ readyState \in {"loaded", "complete"}
  THEN [finish |-> TRUE, handler |-> handler]
  ELSE [finish |-> FALSE, handler |-> handler]

\* node.onreadystatechange, lines 436-443: whether finish() runs on a
\* transition to readyState, and the handler subscribed afterwards.
ReadyStateHandler(handler, readyState) ==
  IF handler = "readystate" /\ readyState \in {"loaded", "complete"}
  THEN [finish |-> TRUE, handler |-> "none"]
  ELSE [finish |-> FALSE, handler |-> handler]

\* The node n once its handler has run on readyState (or on a load/error
\* event, which leaves onload/onerror subscribed); timers leave nothing.
\* Which of 'loaded' and 'complete' the handler ran on is not kept: the node
\* is recorded as 'loaded', from where the host may still move it to
\* 'complete'.
FiredBy(n, readyState) ==
  IF n.handler = "event"
  THEN {[bid |-> n.bid, url |-> n.url, handler |-> "event",
         readyState |-> "none"]}
  ELSE IF n.handler = "readystate"
  THEN {[bid |-> n.bid, url |-> n.url,
         handler |-> ReadyStateHandler(n.handler, readyState).handler,
         readyState |-> "loaded"]}
  ELSE {}

\* Variant of FinishReentrant: pending is cleared before the callback runs.
FinishReentrantClearFirst(p, q, u, new) ==
  IF p = <<>>
  THEN [pending |-> p, queue |-> q, injected |-> {}, started |-> {},
        finalized |-> {}, calls |-> <<>>, entered |-> FALSE]
  ELSE LET urls == Shift(p[1].urls) IN
       IF urls # <<>>
       THEN [pending |-> <<[p[1] EXCEPT !.urls = urls]>>, queue |-> q,
             injected |-> {}, started |-> {}, finalized |-> {},
             calls |-> <<>>, entered |-> FALSE]
       ELSE LET inner == IF p[1].callback # 0
                         THEN Drain(<<>>, Enqueue(q, new), u)
                         ELSE Drain(p, q, u)
                d == Drain(<<>>, inner.queue, u)
            IN [pending |-> d.pending, queue |-> d.queue,
                injected |-> inner.injected \cup d.injected,
                started |-> inner.started \cup d.started,
                finalized |-> {p[1].bid}, calls |-> Dispatch(p[1]),
                entered |-> p[1].callback # 0]

\* finish(), lines 294-324, when the callback (line 306-316) itself calls
\* js()/css(): that load() pushes the request objects new and returns at
\* line 414 because pending is still set; pending is cleared afterwards and
\* load() takes the head of the queue.  entered: the callback was invoked.
FinishReentrant(p, q, u, new) ==
  IF p = <<>>
  THEN [pending |-> p, queue |-> q, injected |-> {}, started |-> {},
        finalized |-> {}, calls |-> <<>>, entered |-> FALSE]
  ELSE LET urls == Shift(p[1].urls) IN
       IF urls # <<>>
       THEN [pending |-> <<[p[1] EXCEPT !.urls = urls]>>, queue |-> q,
             injected |-> {}, started |-> {}, finalized |-> {},
             calls |-> <<>>, entered |-> FALSE]
       ELSE LET inner == IF p[1].callback # 0
                         THEN Drain(p, Enqueue(q, new), u)
                         ELSE Drain(p, q, u)
                d == Drain(<<>>, inner.queue, u)
            IN [pending |-> d.pending, queue |-> d.queue,
                injected |-> inner.injected \cup d.injected,
                started |-> inner.started \cup d.started,
                finalized |-> {p[1].bid}, calls |-> Dispatch(p[1]),
                entered |-> p[1].callback # 0]

\* ------------------------------------------------------------------------
Init ==
  /\ nua \in UserAgents
  /\ ua = UaUnset
  /\ pending = <<>>
  /\ queue = <<>>
  /\ nodes = {}
  /\ submitted = <<>>
  /\ created = <<>>
  /\ started = {}
  /\ finalized = {}
  /\ signals = <<>>
  /\ calls = <<>>
  /\ fired = {}
  /\ spurious = 0

\* LazyLoad.css(...) / LazyLoad.js(...): load(type, urls, callback, obj, scope).
Submit(type, urls, hascb, obj, scope) ==
  /\ Len(submitted) < MaxReqs
  /\ LET req == Len(submitted) + 1
         u   == getUserAgent(ua, nua)
         new == NewRequests(type, CastToArray(urls),
                            IF hascb THEN req ELSE 0, obj, scope, u,
                            Len(created))
         d   == Drain(pending, Enqueue(queue, new), u)
     IN /\ ua' = u
        /\ pending' = d.pending
        /\ queue' = d.queue
        /\ nodes' = nodes \cup d.injected
        /\ started' = started \cup d.started
        /\ created' = created \o new
        /\ signals' = signals \o [i \in 1..Len(new) |-> 0]
        /\ submitted' = Append(submitted,
                          [type |-> type, urls |-> urls, hascb |-> hascb,
                           obj |-> obj, scope |-> scope,
                           first |-> Len(created) + 1,
                           last |-> Len(created) + Len(new),
                           from |-> 0])
  /\ UNCHANGED <<nua, finalized, calls, fired, spurious>>

\* The completion handler of node n runs finish().
Signal(n) ==
  /\ LET f == Finish(pending, queue, ua) IN
       /\ pending' = f.pending
       /\ queue' = f.queue
       /\ nodes' = (nodes \ {n}) \cup f.injected
       /\ started' = started \cup f.started
       /\ finalized' = finalized \cup f.finalized
       /\ calls' = calls \o f.calls
  /\ signals' = [signals EXCEPT ![n.bid] = @ + 1]
  /\ UNCHANGED <<nua, ua, submitted, created>>

\* node.onload = node.onerror = finish: the node loads, or fails to load.
NodeEvent(n, ev) ==
  /\ n \in nodes
  /\ n.handler = "event"
  /\ ev \in {"load", "error"}
  /\ IF ev \in HandledEvents
     THEN Signal(n) /\ fired' = fired \cup FiredBy(n, "none")
     ELSE /\ nodes' = nodes \ {n}
          /\ UNCHANGED <<nua, ua, pending, queue, submitted, created,
                         started, finalized, signals, calls, fired>>
  /\ UNCHANGED spurious

\* node.onreadystatechange: the first 'loaded' or 'complete' state
\* unsubscribes the handler and runs finish().
ReadyStateChange(n, readyState) ==
  /\ n \in nodes
  /\ n.handler = "readystate"
  /\ readyState \in {"loaded", "complete"}
  /\ Signal(n)
  /\ fired' = fired \cup FiredBy(n, readyState)
  /\ UNCHANGED spurious

\* A node whose readyState became 'loaded' goes on to 'complete': the
\* handler, if still subscribed, runs again.
ReadyStateAgain(n) ==
  /\ n \in fired
  /\ n.readyState = "loaded"
  /\ LET h == ReadyStateHandler(n.handler, "complete") IN
       /\ fired' = (fired \ {n}) \cup
                     {[n EXCEPT !.handler = h.handler,
                                !.readyState = "complete"]}
       /\ IF h.finish
          THEN Signal(n)
          ELSE UNCHANGED <<nua, ua, pending, queue, nodes, submitted,
                           created, started, finalized, signals, calls>>
  /\ UNCHANGED spurious

\* setTimeout(finish, 100 * len): the timer fires.
TimerFires(n) ==
  /\ n \in nodes
  /\ n.handler = "timer"
  /\ Signal(n)
  /\ UNCHANGED <<fired, spurious>>

\* The host delivers a further load/error event to a node whose handler has
\* already run: onload and onerror are never unsubscribed, so finish() runs.
SpuriousEvent(n) ==
  /\ spurious < MaxSpurious
  /\ n \in fired
  /\ n.handler = "event"
  /\ Signal(n)
  /\ spurious' = spurious + 1
  /\ UNCHANGED fired

\* A completion signal finishes the pending request and its callback calls
\* js()/css() itself with (type, urls, callback present or not).
ReentrantSignal(n, readyState, type, urls, hascb) ==
  /\ Len(submitted) < MaxReqs + 1
  /\ n \in nodes
  /\ LET req == Len(submitted) + 1
         new == NewRequests(type, CastToArray(urls),
                            IF hascb THEN req ELSE 0, "undefined",
                            "undefined", ua, Len(created))
         f   == FinishReentrant(pending, queue, ua, new)
     IN /\ f.entered
        /\ pending' = f.pending
        /\ queue' = f.queue
        /\ nodes' = (nodes \ {n}) \cup f.injected
        /\ started' = started \cup f.started
        /\ finalized' = finalized \cup f.finalized
        /\ calls' = calls \o f.calls
        /\ created' = created \o new
        /\ signals' = [signals EXCEPT ![n.bid] = @ + 1]
                        \o [i \in 1..Len(new) |-> 0]
        /\ submitted' = Append(submitted,
                          [type |-> type, urls |-> urls, hascb |-> hascb,
                           obj |-> "undefined", scope |-> "undefined",
                           first |-> Len(created) + 1,
                           last |-> Len(created) + Len(new),
                           from |-> n.bid])
  /\ fired' = fired \cup FiredBy(n, readyState)
  /\ UNCHANGED <<nua, ua, spurious>>

Deliver ==
  \/ \E n \in nodes, ev \in {"load", "error"} : NodeEvent(n, ev)
  \/ \E n \in nodes, rs \in {"loaded", "complete"} : ReadyStateChange(n, rs)
  \/ \E n \in nodes : TimerFires(n)

\* Every resource served through the load/error events fails to load.
DeliverFailing ==
  \/ \E n \in nodes : NodeEvent(n, "error")
  \/ \E n \in nodes, rs \in {"loaded", "complete"} : ReadyStateChange(n, rs)
  \/ \E n \in nodes : TimerFires(n)

\* The urls parameter in the runs with re-entrant calls: a single URL, the
\* empty list, or the longest list.
FewUrlInputs == {[str |-> 1], [arr |-> <<>>], [arr |-> UrlArray(MaxUrls)]}

\* Requests whose callback, if any, may submit another request.
SubmitFew ==
  \E type \in Types, urls \in FewUrlInputs, hascb \in BOOLEAN :
    Submit(type, urls, hascb, "undefined", "undefined")

\* A callback that submits a further request with a callback.
Reenter ==
  \E n \in nodes, rs \in {"loaded", "complete"}, type \in Types,
     urls \in FewUrlInputs :
    ReentrantSignal(n, rs, type, urls, TRUE)

\* Requests that differ in kind, URL list and presence of a callback.
SubmitPlain ==
  \E type \in Types, urls \in UrlInputs, hascb \in BOOLEAN :
    Submit(type, urls, hascb, "undefined", "undefined")

\* Single-URL requests that differ in the obj and scope parameters.
SubmitWithArgs ==
  \E type \in Types, obj \in ObjValues, scope \in ScopeValues :
    Submit(type, [str |-> 1], TRUE, obj, scope)

Next == SubmitPlain \/ Deliver

Spec == Init /\ [][Next]_vars

\* Every subscribed completion handler eventually runs.
FairSpec == Spec /\ WF_vars(Deliver)

NextDispatch == SubmitWithArgs \/ Deliver

DispatchSpec == Init /\ [][NextDispatch]_vars

\* Failing resources.
NextFailing == SubmitPlain \/ DeliverFailing

ErrorSpec == Init /\ [][NextFailing]_vars

\* The ready-state strategy with nodes that pass through both states.
NextDetect == SubmitPlain \/ Deliver \/ \E n \in fired : ReadyStateAgain(n)

DetectSpec == Init /\ [][NextDetect]_vars

\* Repeated events on nodes that have already signalled.
NextDup == SubmitPlain \/ Deliver \/ \E n \in fired : SpuriousEvent(n)

DupSpec == Init /\ [][NextDup]_vars

\* Callbacks that submit further requests.
NextReentrant == SubmitFew \/ Deliver \/ Reenter

ReentrantSpec == Init /\ [][NextReentrant]_vars

\* Every user agent text; requests of MaxUrls URLs of either kind.
InitProfile ==
  /\ nua \in AllUserAgents
  /\ ua = UaUnset
  /\ pending = <<>>
  /\ queue = <<>>
  /\ nodes = {}
  /\ submitted = <<>>
  /\ created = <<>>
  /\ started = {}
  /\ finalized = {}
  /\ signals = <<>>
  /\ calls = <<>>
  /\ fired = {}
  /\ spurious = 0

SubmitList ==
  \E type \in Types :
    Submit(type, [arr |-> UrlArray(MaxUrls)], TRUE, "undefined", "undefined")

NextProfile == SubmitList \/ Deliver

ProfileSpec == InitProfile /\ [][NextProfile]_vars

\* ------------------------------------------------------------------------
\* Readings of the history variables.

\* The URL list of the r-th js()/css() call, as an array.
UrlsOf(r) == CastToArray(submitted[r].urls)

\* Number of times the callback of the r-th call was invoked.
Invocations(r) == Cardinality({i \in 1..Len(calls) : calls[i].req = r})

Invoked(r) == Invocations(r) > 0

\* The r-th call passed a callback and at least one URL.
Valid(r) == submitted[r].hascb /\ Len(UrlsOf(r)) >= 1

\* The r-th call made exactly one request object.
OneBatch(r) == submitted[r].first = submitted[r].last

Idle == pending = <<>> /\ queue = <<>>

\* ------------------------------------------------------------------------
\* C1: a request of M >= 1 URLs admitted as one request object (css, js under
\* gecko/opera, or a single URL) has its callback invoked exactly when the
\* M-th finish signal of its nodes has occurred, never before.
C1_CallbackOnLastSignal ==
  \A r \in 1..Len(submitted) :
    (Valid(r) /\ OneBatch(r)) =>
      /\ signals[submitted[r].first] <= Len(UrlsOf(r))
      /\ Invoked(r) <=> signals[submitted[r].first] = Len(UrlsOf(r))

\* A parallel request of MaxUrls URLs whose callback has run.
C1_Witness ==
  \E r \in 1..Len(submitted) :
    /\ Valid(r) /\ OneBatch(r) /\ Len(UrlsOf(r)) = MaxUrls
    /\ Invoked(r)

\* C2: with every injected resource signalling once, the callback of each
\* request is invoked at most once.
C2_CallbackAtMostOnce ==
  \A r \in 1..Len(submitted) : Invocations(r) <= 1

\* Every request was submitted, a split multi-URL request among them, and
\* every node has signalled.
C2_Witness ==
  /\ Len(submitted) = MaxReqs
  /\ nodes = {}
  /\ \E r \in 1..Len(submitted) :
       Invoked(r) /\ submitted[r].last > submitted[r].first

\* C3: if every injected resource delivers its finish signal, every request
\* with a callback and a non-empty URL list eventually has its callback
\* invoked, and the scheduler eventually stays idle.
C3_EveryCallbackEventuallyInvoked ==
  /\ \A r \in 1..MaxReqs :
       (Len(submitted) >= r /\ Valid(r)) ~> (Len(submitted) >= r /\ Invoked(r))
  /\ <>[]Idle

\* C4: callbacks of requests of the same kind are invoked in submission
\* order, and once the scheduler is idle every request with a callback and
\* a non-empty URL list has had exactly one invocation.
C4_CallbacksInSubmissionOrder ==
  /\ \A i, j \in 1..Len(calls) :
       (i < j /\ submitted[calls[i].req].type = submitted[calls[j].req].type)
         => calls[i].req < calls[j].req
  /\ Idle => \A r \in 1..Len(submitted) : Valid(r) => Invocations(r) = 1

\* Two requests of the same kind, both called back, scheduler idle.
C4_Witness ==
  /\ Idle
  /\ Len(calls) >= 2
  /\ submitted[calls[1].req].type = submitted[calls[2].req].type

\* C5: at most one request object of a kind is in flight, every subscribed
\* node belongs to the pending request, and a request object is started only
\* after every earlier one of its kind has finalized.
C5_OneInFlightPerKind ==
  /\ \A a, b \in started \ finalized :
       created[a].type = created[b].type => a = b
  /\ \A n \in nodes : pending # <<>> /\ n.bid = pending[1].bid
  /\ \A a, b \in 1..Len(created) :
       (a < b /\ created[a].type = created[b].type /\ b \in started)
         => a \in finalized

\* A request is loading while another of the same kind waits in the queue.
C5_Witness ==
  /\ pending # <<>> /\ nodes # {}
  /\ \E i \in 1..Len(queue) : queue[i].type = pending[1].type

\* C6 (as stated): a queued request always has a request of its own kind in
\* flight, i.e. a css request never waits behind a js request or vice versa.
C6_KindsIndependent ==
  \A i \in 1..Len(queue) : pending # <<>> /\ pending[1].type = queue[i].type

\* C6 (amended): the queue and the pending slot are shared by both kinds: a
\* request object is started only after every earlier one of the other kind
\* has finalized.
C6_KindsShareQueue ==
  \A a, b \in 1..Len(created) :
    (a < b /\ created[a].type # created[b].type /\ b \in started)
      => a \in finalized

\* A css request waits in the queue while a js request is loading.
C6_Witness ==
  /\ pending # <<>> /\ pending[1].type = "js" /\ nodes # {}
  /\ \E i \in 1..Len(queue) : queue[i].type = "css"

\* C7: a js()/css() call with an empty URL list leaves the queue, the
\* pending request and the injected nodes unchanged.
C7_EmptyListRejected ==
  [][(/\ Len(submitted') = Len(submitted) + 1
      /\ CastToArray(submitted'[Len(submitted')].urls) = <<>>)
       => (pending' = pending /\ queue' = queue /\ nodes' = nodes
           /\ created' = created)]_vars

\* C8: with both an argument and a scope given, the callback is invoked with
\* the scope as its receiver and no positional argument.
C8_ArgAndScope ==
  \A i \in 1..Len(calls) :
    (Present(submitted[calls[i].req].obj)
       /\ Present(submitted[calls[i].req].scope))
      => /\ calls[i].recv = submitted[calls[i].req].scope
         /\ calls[i].args = <<>>

\* C9: with a null argument and a scope given, the callback is invoked with
\* the scope as its receiver.
C9_ScopeWithoutArg ==
  \A i \in 1..Len(calls) :
    (submitted[calls[i].req].obj = "null"
       /\ Present(submitted[calls[i].req].scope))
      => calls[i].recv = submitted[calls[i].req].scope

\* C10: without a scope, the callback is invoked unbound, with the argument
\* as its sole parameter when one was given and with no parameter otherwise.
C10_ArgWithoutScope ==
  \A i \in 1..Len(calls) :
    ~Present(submitted[calls[i].req].scope)
      => /\ calls[i].recv \in {"window", "undefined"}
         /\ calls[i].args =
              IF Present(submitted[calls[i].req].obj)
              THEN <<submitted[calls[i].req].obj>> ELSE <<>>

\* ------------------------------------------------------------------------
\* Further readings of the history variables.

\* Number of subscribed nodes of request object b.
Outstanding(b) == Cardinality({n \in nodes : n.bid = b})

\* Number of URLs request object b was created with.
UrlCount(b) == Len(created[b].urls)

\* C11: a request object all of whose resources have reported, by failing
\* wherever the load/error events are used, has had one finish() per URL, is
\* finalized, has had its callback invoked once with the receiver and
\* arguments of a successful load, and the next request object is started.
C11_FailureCountsAsLoad ==
  \A b \in started :
    (UrlCount(b) >= 1 /\ Outstanding(b) = 0) =>
      /\ signals[b] = UrlCount(b)
      /\ b \in finalized
      /\ created[b].callback # 0 =>
           /\ Invocations(created[b].callback) = 1
           /\ \E i \in 1..Len(calls) :
                calls[i] = [req |-> created[b].callback,
                            recv |-> "undefined", args |-> <<>>]
      /\ b < Len(created) => b + 1 \in started

\* A request object of MaxUrls URLs, all failed with an error event, is
\* finalized, its callback has run and the next request object is started.
C11_Witness ==
  \E b \in finalized :
    /\ UrlCount(b) = MaxUrls
    /\ Cardinality({n \in fired : n.bid = b /\ n.handler = "event"}) = MaxUrls
    /\ created[b].callback # 0 /\ Invoked(created[b].callback)
    /\ b + 1 \in started

\* C12: css() under any profile and js() under gecko or opera make exactly
\* one request object holding all the URLs in order, and all its nodes are
\* injected when it is started; any other request makes single-URL request
\* objects only.
C12_ParallelEligibility ==
  \A r \in 1..Len(submitted) :
    IF submitted[r].type = "css" \/ ua.gecko # 0 \/ ua.opera # 0
    THEN /\ OneBatch(r)
         /\ created[submitted[r].first].urls = UrlsOf(r)
         /\ submitted[r].first \in started =>
              Outstanding(submitted[r].first) + signals[submitted[r].first]
                = Len(UrlsOf(r))
    ELSE \A b \in submitted[r].first..submitted[r].last : UrlCount(b) = 1

\* A js request of MaxUrls URLs under gecko or opera has just been started:
\* all its nodes are injected and none has signalled.
C12_Witness ==
  \E r \in 1..Len(submitted) :
    /\ submitted[r].type = "js" /\ (ua.gecko # 0 \/ ua.opera # 0)
    /\ Len(UrlsOf(r)) = MaxUrls
    /\ submitted[r].first \in started
    /\ Outstanding(submitted[r].first) = MaxUrls

\* C13: js() of M URLs under a profile that is neither gecko nor opera makes M
\* single-URL request objects in URL order, only the last carrying the
\* callback; the (k+1)-th is started only after the k-th has signalled, and
\* the callback runs once, after all M signals.
C13_SequentialSplit ==
  \A r \in 1..Len(submitted) :
    (submitted[r].type = "js" /\ ua.gecko = 0 /\ ua.opera = 0) =>
      /\ submitted[r].last - submitted[r].first + 1 = Len(UrlsOf(r))
      /\ \A k \in 1..Len(UrlsOf(r)) :
           LET b == submitted[r].first + k - 1 IN
             /\ created[b].urls = <<UrlsOf(r)[k]>>
             /\ created[b].callback =
                  IF k = Len(UrlsOf(r)) /\ submitted[r].hascb THEN r ELSE 0
             /\ (k > 1 /\ b \in started) => signals[b - 1] = 1
      /\ Invoked(r) =>
           \A b \in submitted[r].first..submitted[r].last : signals[b] = 1
      /\ Invocations(r) <= 1

\* A split js request of MaxUrls URLs whose callback has run.
C13_Witness ==
  \E r \in 1..Len(submitted) :
    /\ submitted[r].type = "js" /\ ua.gecko = 0 /\ ua.opera = 0
    /\ Len(UrlsOf(r)) = MaxUrls /\ MaxUrls >= 2
    /\ Invoked(r)

\* C14: a repeated finish signal from a node of an already finalized request
\* object changes neither the pending request nor the queue, and invokes no
\* callback and finalizes nothing.
C14_SpuriousSignalIgnored ==
  [][(/\ spurious' = spurious + 1
      /\ \E b \in finalized : signals'[b] # signals[b])
       => (pending' = pending /\ queue' = queue /\ calls' = calls
           /\ finalized' = finalized)]_vars

\* C15: finish() runs exactly once per injected URL and never for a request
\* object that was not started; a ready-state node that has run finish() is
\* unsubscribed, so its later transition to 'complete' runs nothing.
C15_FinishOncePerUrl ==
  /\ \A b \in 1..Len(created) :
       IF b \in started
       THEN signals[b] + Outstanding(b) = UrlCount(b)
       ELSE signals[b] = 0 /\ Outstanding(b) = 0
  /\ \A n \in fired : n.readyState # "none" => n.handler = "none"
  /\ \A b \in 1..Len(created) :
       Cardinality({n \in fired : n.bid = b}) <= signals[b]

\* Under ie, every node of a finalized request object of MaxUrls URLs has
\* gone on to 'complete' after its handler ran.
C15_Witness ==
  \E b \in finalized :
    /\ UrlCount(b) = MaxUrls
    /\ signals[b] = MaxUrls
    /\ Cardinality({n \in fired : n.bid = b /\ n.readyState = "complete"})
         = MaxUrls

\* C16: the nodes of a stylesheet request object of M URLs report through
\* timers of delay 100 * M under gecko and webkit, through the ready state
\* under ie and through load/error otherwise; under gecko and webkit no
\* event handler ever runs for it and it is finalized exactly when its M
\* timers have fired.
C16_DeferredFinish ==
  \A b \in started :
    created[b].type = "css" =>
      /\ \A n \in nodes :
           n.bid = b =>
             IF ua.ie # 0 THEN n.handler = "readystate"
             ELSE IF ua.gecko # 0 \/ ua.webkit # 0
                  THEN n.handler = "timer" /\ n.delay = 100 * UrlCount(b)
                  ELSE n.handler = "event"
      /\ (ua.ie = 0 /\ (ua.gecko # 0 \/ ua.webkit # 0)) =>
           /\ \A n \in fired : n.bid # b
           /\ UrlCount(b) >= 1 => (b \in finalized <=> signals[b] = UrlCount(b))

\* Under webkit a stylesheet request of MaxUrls URLs is finalized and called
\* back though no event handler has run.
C16_Witness ==
  \E b \in finalized :
    /\ created[b].type = "css" /\ ua.webkit # 0
    /\ UrlCount(b) = MaxUrls
    /\ fired = {}
    /\ created[b].callback # 0 /\ Invoked(created[b].callback)

\* C17: the pending request never has zero URLs remaining.
C17_PendingNeverEmpty ==
  pending # <<>> => Len(pending[1].urls) >= 1

\* C18: after every step an empty pending slot implies an empty queue, and
\* the step that finalizes a request object clears the slot and, when the
\* queue is not empty, makes its head pending and injects its nodes.
C18_IdleImpliesEmptyQueue ==
  [][/\ pending' = <<>> => queue' = <<>>
     /\ finalized' # finalized =>
          IF queue = <<>>
          THEN pending' = <<>> /\ nodes' \subseteq nodes
          ELSE /\ pending' = <<Head(queue)>>
               /\ queue' = Tail(queue)
               /\ Head(queue).bid \in started'
               /\ Cardinality({n \in nodes' : n.bid = Head(queue).bid})
                    = Len(Head(queue).urls)]_vars

\* A later part of a split request is loading: it was taken from the queue
\* by the finalization of the part before it.
C18_Witness ==
  \E r \in 1..Len(submitted) :
    /\ pending # <<>> /\ nodes # {}
    /\ pending[1].bid > submitted[r].first
    /\ pending[1].bid <= submitted[r].last
    /\ pending[1].bid - 1 \in finalized

\* C19: a request submitted from inside a callback is started only after the
\* calling request object and every request object queued before it have
\* finalized; at most one request object is in flight, every subscribed node
\* belongs to it, and once idle no request object was skipped.
C19_ReentrantSubmission ==
  /\ \A r \in 1..Len(submitted) :
       submitted[r].from # 0 =>
         /\ submitted[r].from \in finalized
         /\ \A b \in submitted[r].first..submitted[r].last :
              b \in started => \A a \in 1..(b - 1) : a \in finalized
  /\ Cardinality(started \ finalized) <= 1
  /\ \A n \in nodes : pending # <<>> /\ n.bid = pending[1].bid
  /\ \A b \in started : signals[b] + Outstanding(b) = UrlCount(b)
  /\ Idle => \A b \in 1..Len(created) : b \in finalized

\* A request submitted from a callback, behind a request object that was
\* already queued, has been started.
C19_Witness ==
  \E r \in 1..Len(submitted) :
    /\ submitted[r].from # 0
    /\ submitted[r].first > submitted[r].from + 1
    /\ submitted[r].first \in started

\* C20: from the start of the first part of a split request to the
\* finalization of its last part the pending request is one of its parts and
\* every subscribed node is a node of one of them; the parts are started in
\* URL order.
C20_SplitContiguous ==
  \A r \in 1..Len(submitted) :
    submitted[r].first < submitted[r].last =>
      /\ (submitted[r].first \in started
            /\ submitted[r].last \notin finalized) =>
           /\ pending # <<>>
           /\ pending[1].bid \in submitted[r].first..submitted[r].last
           /\ \A n \in nodes :
                n.bid \in submitted[r].first..submitted[r].last
      /\ \A b \in (submitted[r].first + 1)..submitted[r].last :
           /\ b \in started => (b - 1) \in finalized
           /\ created[b].urls[1] > created[b - 1].urls[1]

\* The last part of a split request is loading while a request object of
\* another request waits in the queue.
C20_Witness ==
  \E r \in 1..Len(submitted) :
    /\ submitted[r].first < submitted[r].last
    /\ pending # <<>> /\ pending[1].bid = submitted[r].last
    /\ nodes # {}
    /\ queue # <<>>

\* ------------------------------------------------------------------------
\* Readings of the user agent text and of the profile made from it.
Families == {"webkit", "ie", "gecko", "opera"}

\* The markers in priority order, and the family each one stands for.
Priority == <<"AppleWebKit", "MSIE", "Gecko", "Opera">>
FamilyOf == <<"webkit", "ie", "gecko", "opera">>

\* Index of the first marker in priority order that is in S; 0 for none.
FirstOf(S) ==
  IF \E i \in 1..Len(Priority) : Priority[i] \in S
  THEN CHOOSE i \in 1..Len(Priority) :
         Priority[i] \in S /\ \A j \in 1..(i - 1) : Priority[j] \notin S
  ELSE 0

\* The marker occurs in the text.
MarkerPresent(m) == Match(nua, m) # NoMatch

\* The marker occurs in the text and, for the webkit and MSIE markers, a
\* non-empty version text follows it.
MarkerTaken(m) ==
  IF m \in {"AppleWebKit", "MSIE"} THEN MatchedVersion(Match(nua, m))
  ELSE MarkerPresent(m)

\* The version text that is parsed for a marker: for Gecko the text after
\* "rv:", for the others the text after the marker itself.
VersionText(m) == IF m = "Gecko" THEN Match(nua, "rv") ELSE Match(nua, m)

\* The version of a taken marker is a non-zero number: its version text
\* starts with one, or it is the Gecko marker without a usable "rv:" token.
VersionNonZero(m) ==
  \/ m = "Gecko" /\ ~MatchedVersion(VersionText(m))
  \/ VersionText(m) = "7"

\* The r-th call was a script request.
IsScript(r) == submitted[r].type = "js"

\* C21 (as stated): at most one engine family is flagged; a flagged family is
\* that of the highest-priority marker present in the text; a text without
\* marker yields the all-zero profile; and when the Gecko or the Opera marker
\* is the highest-priority marker present, script requests are admitted as
\* one parallel batch.
C21_FirstMarkerWins ==
  ua.populated =>
    LET top == FirstOf({m \in Markers : MarkerPresent(m)}) IN
      /\ Cardinality({f \in Families : ua[f] # 0}) <= 1
      /\ \A f \in Families : ua[f] # 0 => (top # 0 /\ f = FamilyOf[top])
      /\ top = 0 => \A f \in Families : ua[f] = 0
      /\ (top # 0 /\ Priority[top] \in {"Gecko", "Opera"}) =>
           \A r \in 1..Len(submitted) : IsScript(r) => OneBatch(r)

\* C21 (amended): at most one engine family is non-zero, and it is the family
\* of the first marker in priority order that is taken (webkit and MSIE only
\* with a non-empty version text); that family is flagged exactly when its
\* version is a non-zero number; a text without taken marker yields the
\* all-zero profile; and script requests are admitted as one parallel batch
\* exactly when the taken marker is Gecko or Opera and its family is flagged.
C21_FirstTakenMarkerWins ==
  ua.populated =>
    LET top == FirstOf({m \in Markers : MarkerTaken(m)}) IN
      /\ Cardinality({f \in Families : ua[f] # 0}) <= 1
      /\ \A f \in Families : ua[f] # 0 => (top # 0 /\ f = FamilyOf[top])
      /\ top # 0 => (Flagged(ua[FamilyOf[top]]) <=> VersionNonZero(Priority[top]))
      /\ top = 0 => \A f \in Families : ua[f] = 0
      /\ \A r \in 1..Len(submitted) :
           IsScript(r) =>
             (OneBatch(r) <=>
                /\ top # 0 /\ Priority[top] \in {"Gecko", "Opera"}
                /\ VersionNonZero(Priority[top]))

\* A text with an MSIE marker without version, a Gecko marker with a numbered
\* "rv:" token and an Opera marker: gecko is flagged and a script request of
\* MaxUrls URLs was loaded as one batch and called back.
C21_Witness ==
  /\ ua.populated
  /\ Match(nua, "AppleWebKit") = NoMatch
  /\ Match(nua, "MSIE") = ""
  /\ Match(nua, "rv") = "7"
  /\ MarkerPresent("Gecko") /\ MarkerPresent("Opera")
  /\ Flagged(ua.gecko)
  /\ \E r \in 1..Len(submitted) :
       /\ IsScript(r) /\ OneBatch(r) /\ Len(UrlsOf(r)) = MaxUrls
       /\ Invoked(r)

====
